---------------------------- MODULE Spec2Model ----------------------------
(***************************************************************************)
(* mdbook-compile-output: an mdBook preprocessor that replaces every       *)
(* `{{#compile_output: <step>}}` line of a chapter by the captured output  *)
(* of `cargo test --release` run in rust_stages/<step>.                    *)
(*                                                                         *)
(* Text is modelled as a sequence of characters, each character a string   *)
(* of length one ("\n", "\r", " ", "a", ...).  The backtick (U+0060) has   *)
(* no TLA+ string literal and is written as the token BQ.  Option<T> is    *)
(* the record [some, val].                                                 *)
(***************************************************************************)
EXTENDS Naturals, Integers, Sequences, FiniteSets, TLC

VARIABLES
    pc,         \* position of the process: main / parse_input / run / lines /
                \* compile / wait / done  (scan / scanned for the scanner alone)
    args,       \* std::env::args().skip(1): the arguments after argv[0]
    stdin,      \* what the host put on standard input
    stdin_read, \* whether standard input has been read
    book,       \* handle_preprocessing's Book (sections), mutated in place
    todo,       \* for_each_mut: the items the closure is still to be called on
    rest,       \* process_compile: content.lines() not yet consumed
    line,       \* process_compile: the loop variable
    step,       \* process_compile: extract_step_name(line)
    result,     \* process_compile: the String being built
    running,    \* number of child processes spawned and not yet waited for
    spawned,    \* every Command spawned so far, in order (its current_dir)
    outputs,    \* every std::process::Output returned so far, in order
    stdout,     \* what the process has written to standard output
    stderr,     \* the diagnostics written to standard error, in order
    exit_code   \* the process exit status, NoExit while it runs

vars == <<pc, args, stdin, stdin_read, book, todo, rest, line, step, result,
          running, spawned, outputs, stdout, stderr, exit_code>>

(***************************************************************************)
(* Bounds of the model.                                                    *)
(***************************************************************************)
MaxNodes == 2
MaxLines == 2
MaxPad == 1

(***************************************************************************)
(* Characters and text.                                                    *)
(***************************************************************************)
LF == "\n"
CR == "\r"
BQ == "U+0060"
REPLACEMENT_CHARACTER == "U+FFFD"
InvalidByte == "0xFF"

\* char::is_whitespace, restricted to the characters the model uses
White_Space == {" ", "\t", LF, CR}

None == [some |-> FALSE, val |-> <<>>]
Some(v) == [some |-> TRUE, val |-> v]

RECURSIVE Concat(_)
Concat(ss) == IF ss = <<>> THEN <<>> ELSE Head(ss) \o Concat(Tail(ss))

RECURSIVE trim_start(_)
trim_start(s) ==
    IF s # <<>> /\ Head(s) \in White_Space THEN trim_start(Tail(s)) ELSE s

RECURSIVE trim_end(_)
trim_end(s) ==
    IF s # <<>> /\ s[Len(s)] \in White_Space
    THEN trim_end(SubSeq(s, 1, Len(s) - 1))
    ELSE s

trim(s) == trim_end(trim_start(s))

starts_with(s, p) == Len(s) >= Len(p) /\ SubSeq(s, 1, Len(p)) = p

strip_prefix(s, p) ==
    IF starts_with(s, p) THEN Some(SubSeq(s, Len(p) + 1, Len(s))) ELSE None

ends_with(s, p) ==
    Len(s) >= Len(p) /\ SubSeq(s, Len(s) - Len(p) + 1, Len(s)) = p

strip_suffix(s, p) ==
    IF ends_with(s, p) THEN Some(SubSeq(s, 1, Len(s) - Len(p))) ELSE None

\* String::from_utf8_lossy: every invalid byte sequence becomes U+FFFD
RECURSIVE from_utf8_lossy(_)
from_utf8_lossy(bytes) ==
    IF bytes = <<>> THEN <<>>
    ELSE <<IF Head(bytes) = InvalidByte THEN REPLACEMENT_CHARACTER ELSE Head(bytes)>>
         \o from_utf8_lossy(Tail(bytes))

\* a line that keeps the "\r" of its "\r\n"
LinesMapKeepCR(piece) ==
    IF ~ends_with(piece, <<LF>>) THEN piece
    ELSE SubSeq(piece, 1, Len(piece) - 1)

\* str::lines: split_inclusive('\n'), then each piece loses one trailing "\n"
\* and, only if it had one, one trailing "\r" before it
LinesMap(piece) ==
    IF ~ends_with(piece, <<LF>>) THEN piece
    ELSE LET l == SubSeq(piece, 1, Len(piece) - 1) IN
         IF ~ends_with(l, <<CR>>) THEN l ELSE SubSeq(l, 1, Len(l) - 1)

\* the index of the first "\n" of s at or after i, 0 when there is none
RECURSIVE find_newline(_, _)
find_newline(s, i) ==
    IF i > Len(s) THEN 0 ELSE IF s[i] = LF THEN i ELSE find_newline(s, i + 1)

RECURSIVE lines(_)
lines(s) ==
    IF s = <<>> THEN <<>>
    ELSE LET i == find_newline(s, 1) IN
         IF i = 0 THEN <<LinesMap(s)>>
         ELSE <<LinesMap(SubSeq(s, 1, i))>> \o lines(SubSeq(s, i + 1, Len(s)))

(***************************************************************************)
(* Marker Scanner.                                                         *)
(***************************************************************************)
prefix == <<"{", "{", "#", "c", "o", "m", "p", "i", "l", "e", "_",
            "o", "u", "t", "p", "u", "t", ":">>
suffix == <<"}", "}">>

\* the scanner with trim() where the code has trim_start()
extract_step_name_trimmed(ln) ==
    IF starts_with(trim(ln), prefix)
    THEN LET after == strip_prefix(trim(ln), prefix) IN
         IF ~after.some THEN None
         ELSE LET inner == strip_suffix(after.val, suffix) IN
              IF ~inner.some THEN None ELSE Some(trim(inner.val))
    ELSE None

extract_step_name(ln) ==
    IF starts_with(trim_start(ln), prefix)
    THEN LET after == strip_prefix(trim_start(ln), prefix) IN
         IF ~after.some THEN None
         ELSE LET inner == strip_suffix(after.val, suffix) IN
              IF ~inner.some THEN None ELSE Some(trim(inner.val))
    ELSE None


(***************************************************************************)
(* Document tree (mdbook Book.sections).  A chapter is a draft chapter     *)
(* when it has no path (Chapter::is_draft_chapter).                        *)
(***************************************************************************)
NoPath == "None"

Separator ==
    [kind |-> "Separator", name |-> "", content |-> <<>>, path |-> NoPath,
     sub_items |-> <<>>]

Chapter(name, content, path, sub_items) ==
    [kind |-> "Chapter", name |-> name, content |-> content, path |-> path,
     sub_items |-> sub_items]

is_draft_chapter(ch) == ch.path = NoPath

\* the item at a path of 1-based indices
RECURSIVE ItemAt(_, _)
ItemAt(items, path) ==
    IF Len(path) = 1 THEN items[path[1]]
    ELSE ItemAt(items[path[1]].sub_items, Tail(path))

\* ch.content = c for the chapter at path
RECURSIVE SetContent(_, _, _)
SetContent(items, path, c) ==
    IF Len(path) = 1
    THEN [items EXCEPT ![path[1]].content = c]
    ELSE [items EXCEPT ![path[1]].sub_items =
              SetContent(items[path[1]].sub_items, Tail(path), c)]

\* a walk that calls the closure on a chapter before it recurses into its
\* sub_items
RECURSIVE for_each_mut_parent_first(_, _)
for_each_mut_parent_first(items, at) ==
    Concat([i \in 1..Len(items) |->
        <<at \o <<i>>>> \o
        (IF items[i].kind = "Chapter"
         THEN for_each_mut_parent_first(items[i].sub_items, at \o <<i>>)
         ELSE <<>>)])

\* Book::for_each_mut (mdbook): for each item in order, first recurse into a
\* chapter's sub_items, then call the closure on the item itself
RECURSIVE for_each_mut(_, _)
for_each_mut(items, at) ==
    Concat([i \in 1..Len(items) |->
        (IF items[i].kind = "Chapter"
         THEN for_each_mut(items[i].sub_items, at \o <<i>>)
         ELSE <<>>)
        \o <<at \o <<i>>>>])

(***************************************************************************)
(* Step Runner: the Output of one `cargo test --release`, and the block    *)
(* compile() makes of it.                                                  *)
(***************************************************************************)
fence_open == <<BQ, BQ, BQ, "t", "e", "x", "t", LF>>
fence_close == <<LF, BQ, BQ, BQ>>

\* current_dir of the command: format!("rust_stages/{}", step.trim())
step_dir(s) == <<"rust_stages/">> \o trim(s)

\* compile() that always takes the standard output
compile_format_stdout(output) ==
    fence_open \o from_utf8_lossy(output.stdout) \o fence_close

compile_format(output) ==
    IF output.success
    THEN fence_open \o from_utf8_lossy(output.stdout) \o fence_close
    ELSE fence_open \o from_utf8_lossy(output.stderr) \o fence_close

(***************************************************************************)
(* Process state.                                                          *)
(***************************************************************************)
NoExit == -1
EXIT_SUCCESS == 0
EXIT_FAILURE == 1
EXIT_PANIC == 101

Nothing == [written |-> "nothing", doc |-> <<>>]
Whole(b) == [written |-> "whole", doc |-> b]
\* some proper prefix of the JSON text of the document
Partial == [written |-> "partial", doc |-> <<>>]

UnknownArgument(arg) == [kind |-> "unknown argument", text |-> arg]
ErrorMessage(what) == [kind |-> "error", text |-> what]
PanicMessage(what) == [kind |-> "panic", text |-> what]

Arg(s) == [unicode |-> TRUE, s |-> s]
\* an argument that is not valid Unicode (an OsString into_string() rejects)
NonUnicodeArg == [unicode |-> FALSE, s |-> "0xFF"]

Malformed == [valid |-> FALSE, book |-> <<>>]
Document(b) == [valid |-> TRUE, book |-> b]

(***************************************************************************)
(* Inputs.                                                                 *)
(***************************************************************************)
ArgLists ==
    {<<>>, <<Arg("supports")>>, <<Arg("supports"), Arg("html")>>,
     <<Arg("supports"), NonUnicodeArg>>, <<Arg("foo")>>, <<Arg("")>>,
     <<Arg("foo"), Arg("supports")>>, <<NonUnicodeArg>>}

MarkerA == prefix \o <<" ", "a">> \o suffix
MarkerB == <<" ", " ">> \o prefix \o <<" ", " ", "b", " ">> \o suffix
MarkerTab == <<"\t">> \o prefix \o <<"b">> \o suffix
Unclosed == prefix \o <<" ", "a">>

TwoMarkers == MarkerA \o <<LF, "x", CR, LF>> \o MarkerB
MarkerFree == Unclosed \o <<CR, LF, LF, "x", CR>>
OneMarker == MarkerTab \o <<LF>>

\* chapters without sub_items: drafts and chapters with a path
ChapterKinds ==
    {<<c, p>> : c \in {TwoMarkers, MarkerFree}, p \in {NoPath}}
    \cup {<<c, p>> : c \in {TwoMarkers, MarkerFree, OneMarker}, p \in {"ch.md"}}

\* the sequences of items with n nodes in all
RECURSIVE ForestN(_)
ForestN(n) ==
    IF n = 0 THEN {<<>>}
    ELSE UNION {
        LET firsts ==
                (IF k = 1 THEN {Separator} ELSE {})
                \cup {Chapter("ch", ck[1], ck[2], subs) :
                        ck \in ChapterKinds, subs \in ForestN(k - 1)}
        IN {<<it>> \o r : it \in firsts, r \in ForestN(n - k)}
        : k \in 1..n}

Books == UNION {ForestN(n) : n \in 0..MaxNodes}

\* the lines of the rewriter's inputs
RewriteLines ==
    {MarkerA, MarkerB, Unclosed, MarkerA \o <<" ">>, <<"x">> \o MarkerA,
     prefix \o suffix, <<"x">>, <<>>, <<"a", CR, "b">>}

Terminators == {<<LF>>, <<CR, LF>>}

RECURSIVE TerminatedLines(_)
TerminatedLines(n) ==
    IF n = 0 THEN {<<>>}
    ELSE {l \o t \o r : l \in RewriteLines, t \in Terminators,
                        r \in TerminatedLines(n - 1)}

\* up to MaxLines lines, the last one terminated or not
RewriteContents ==
    UNION {TerminatedLines(n) : n \in 0..MaxLines}
    \cup UNION {{c \o l : c \in TerminatedLines(n - 1), l \in RewriteLines \ {<<>>}}
                : n \in 1..MaxLines}

RewriteBooks == {<<Chapter("ch", c, "ch.md", <<>>)>> : c \in RewriteContents}

\* the lines of the scanner's inputs
RECURSIVE Pads(_)
Pads(n) ==
    IF n = 0 THEN {<<>>}
    ELSE Pads(n - 1) \cup {<<w>> \o p : w \in {" ", "\t"}, p \in Pads(n - 1)}

ScanLines ==
    {lead \o head \o pad1 \o name \o pad2 \o tail \o trail :
        lead \in Pads(MaxPad),
        head \in {prefix, SubSeq(prefix, 1, Len(prefix) - 1), <<"x">> \o prefix, <<>>},
        pad1 \in Pads(MaxPad),
        name \in {<<>>, <<"a">>, <<"a", " ", "b">>, <<"}", "}">>},
        pad2 \in Pads(MaxPad),
        tail \in {suffix, <<"}">>, <<>>, suffix \o <<"x">>},
        trail \in Pads(MaxPad)}

\* what one `cargo test --release` can return
Outputs ==
    {[success |-> TRUE, stdout |-> <<"A", LF>>, stderr |-> <<"w">>],
     [success |-> FALSE, stdout |-> <<"o">>, stderr |-> <<"E", InvalidByte>>]}

(***************************************************************************)
(* The process.                                                            *)
(***************************************************************************)
Start(argLists, stdins) ==
    /\ pc = "main"
    /\ args \in argLists
    /\ stdin \in stdins
    /\ stdin_read = FALSE
    /\ book = <<>>
    /\ todo = <<>>
    /\ rest = <<>>
    /\ line = <<>>
    /\ step = None
    /\ result = <<>>
    /\ running = 0
    /\ spawned = <<>>
    /\ outputs = <<>>
    /\ stdout = Nothing
    /\ stderr = <<>>
    /\ exit_code = NoExit

Init == Start(ArgLists, {Malformed} \cup {Document(b) : b \in Books})

\* process::exit(code), or main returning
Exit(code, messages) ==
    /\ pc' = "done"
    /\ exit_code' = code
    /\ stderr' = stderr \o messages

\* main, lines 12-23: the match on the first argument.  args.next() converts
\* that argument alone, and panics when it is not valid Unicode.
Main ==
    /\ pc = "main"
    /\ IF args = <<>>
       THEN pc' = "parse_input" /\ UNCHANGED <<exit_code, stderr>>
       ELSE IF ~args[1].unicode
       THEN Exit(EXIT_PANIC, <<PanicMessage("called Result::unwrap() on an Err value")>>)
       ELSE IF args[1].s = "supports"
       THEN Exit(EXIT_SUCCESS, <<>>)
       ELSE Exit(EXIT_FAILURE, <<UnknownArgument(args[1].s)>>)
    /\ UNCHANGED <<args, stdin, stdin_read, book, todo, rest, line, step, result,
                   running, spawned, outputs, stdout>>

\* handle_preprocessing, lines 110-112: parse_input(io::stdin())?, then run
\* starts its walk
ParseInput ==
    /\ pc = "parse_input"
    /\ stdin_read' = TRUE
    /\ IF stdin.valid
       THEN /\ book' = stdin.book
            /\ todo' = for_each_mut(stdin.book, <<>>)
            /\ pc' = "run"
            /\ UNCHANGED <<exit_code, stderr>>
       ELSE /\ Exit(EXIT_FAILURE, <<ErrorMessage("parse_input")>>)
            /\ UNCHANGED <<book, todo>>
    /\ UNCHANGED <<args, stdin, rest, line, step, result, running, spawned,
                   outputs, stdout>>

\* the closure of run that enters process_compile for any chapter
VisitAnyChapter ==
    /\ pc = "run"
    /\ todo # <<>>
    /\ LET item == ItemAt(book, Head(todo)) IN
       IF item.kind = "Chapter"
       THEN /\ rest' = lines(item.content)
            /\ result' = <<>>
            /\ pc' = "lines"
            /\ UNCHANGED todo
       ELSE /\ todo' = Tail(todo)
            /\ UNCHANGED <<rest, result, pc>>
    /\ UNCHANGED <<args, stdin, stdin_read, book, line, step, running, spawned,
                   outputs, stdout, stderr, exit_code>>

\* run, lines 39-47: the closure called on the next item; a chapter that is
\* not a draft enters process_compile (lines 53-54)
Visit ==
    /\ pc = "run"
    /\ todo # <<>>
    /\ LET item == ItemAt(book, Head(todo)) IN
       IF item.kind = "Chapter" /\ ~is_draft_chapter(item)
       THEN /\ rest' = lines(item.content)
            /\ result' = <<>>
            /\ pc' = "lines"
            /\ UNCHANGED todo
       ELSE /\ todo' = Tail(todo)
            /\ UNCHANGED <<rest, result, pc>>
    /\ UNCHANGED <<args, stdin, stdin_read, book, line, step, running, spawned,
                   outputs, stdout, stderr, exit_code>>

\* the loop body that drops the line terminator
NextLineNoNewline ==
    /\ pc = "lines"
    /\ rest # <<>>
    /\ line' = Head(rest)
    /\ step' = extract_step_name(Head(rest))
    /\ IF step'.some
       THEN pc' = "compile" /\ UNCHANGED <<rest, result>>
       ELSE /\ result' = result \o Head(rest)
            /\ rest' = Tail(rest)
            /\ UNCHANGED pc
    /\ UNCHANGED <<args, stdin, stdin_read, book, todo, running, spawned, outputs,
                   stdout, stderr, exit_code>>

\* process_compile, lines 54-61: the next line; a line that is no marker is
\* pushed with its newline, a marker goes to compile
NextLine ==
    /\ pc = "lines"
    /\ rest # <<>>
    /\ line' = Head(rest)
    /\ step' = extract_step_name(Head(rest))
    /\ IF step'.some
       THEN pc' = "compile" /\ UNCHANGED <<rest, result>>
       ELSE /\ result' = result \o Head(rest) \o <<LF>>
            /\ rest' = Tail(rest)
            /\ UNCHANGED pc
    /\ UNCHANGED <<args, stdin, stdin_read, book, todo, running, spawned, outputs,
                   stdout, stderr, exit_code>>

\* process_compile returns (line 63) and run assigns ch.content (line 45);
\* the loop's locals are gone
EndContent ==
    /\ pc = "lines"
    /\ rest = <<>>
    /\ book' = SetContent(book, Head(todo), result)
    /\ todo' = Tail(todo)
    /\ line' = <<>>
    /\ step' = None
    /\ pc' = "run"
    /\ UNCHANGED <<args, stdin, stdin_read, rest, result, running, spawned,
                   outputs, stdout, stderr, exit_code>>

\* compile, lines 80-86: the command is spawned in rust_stages/<step>
Spawn ==
    /\ pc = "compile"
    /\ running' = running + 1
    /\ spawned' = Append(spawned, step_dir(step.val))
    /\ pc' = "wait"
    /\ UNCHANGED <<args, stdin, stdin_read, book, todo, rest, line, step, result,
                   outputs, stdout, stderr, exit_code>>

\* a spawn failure folded into the block instead of a panic
SpawnFailRecovered ==
    /\ pc = "compile"
    /\ result' = result \o fence_open \o <<"E">> \o fence_close \o <<LF>>
    /\ rest' = Tail(rest)
    /\ pc' = "lines"
    /\ UNCHANGED <<args, stdin, stdin_read, book, todo, line, step, running,
                   spawned, outputs, stdout, stderr, exit_code>>

\* compile, line 87: output() is an Err (no cargo, no such directory) and
\* expect panics
SpawnFail ==
    /\ pc = "compile"
    /\ Exit(EXIT_PANIC, <<PanicMessage("Failed to execute cargo test")>>)
    /\ UNCHANGED <<args, stdin, stdin_read, book, todo, rest, line, step, result,
                   running, spawned, outputs, stdout>>

\* a child that ends the run when it fails
ChildExitFatal ==
    /\ pc = "wait"
    /\ \E output \in Outputs :
        /\ outputs' = Append(outputs, output)
        /\ running' = running - 1
        /\ IF output.success
           THEN /\ result' = result \o compile_format(output) \o <<LF>>
                /\ rest' = Tail(rest)
                /\ pc' = "lines"
                /\ UNCHANGED <<exit_code, stderr>>
           ELSE /\ Exit(EXIT_FAILURE, <<ErrorMessage("cargo test failed")>>)
                /\ UNCHANGED <<result, rest>>
    /\ UNCHANGED <<args, stdin, stdin_read, book, todo, line, step, spawned, stdout>>

\* compile, lines 86-106, and process_compile, lines 57 and 61: output()
\* returns once the child has exited; the block and a newline are pushed
ChildExit ==
    /\ pc = "wait"
    /\ \E output \in Outputs :
        /\ outputs' = Append(outputs, output)
        /\ result' = result \o compile_format(output) \o <<LF>>
    /\ running' = running - 1
    /\ rest' = Tail(rest)
    /\ pc' = "lines"
    /\ UNCHANGED <<args, stdin, stdin_read, book, todo, line, step, spawned,
                   stdout, stderr, exit_code>>

\* handle_preprocessing, lines 113-114, and main returning: the document is
\* written to standard output
Serialize ==
    /\ pc = "run"
    /\ todo = <<>>
    /\ stdout' = Whole(book)
    /\ Exit(EXIT_SUCCESS, <<>>)
    /\ UNCHANGED <<args, stdin, stdin_read, book, todo, rest, line, step, result,
                   running, spawned, outputs>>

\* handle_preprocessing, line 113, and main, lines 25-28: to_writer streams
\* the JSON text into standard output; when a write fails, what was written
\* before it stays written
SerializeFail ==
    /\ pc = "run"
    /\ todo = <<>>
    /\ stdout' \in {Nothing, Partial}
    /\ Exit(EXIT_FAILURE, <<ErrorMessage("to_writer")>>)
    /\ UNCHANGED <<args, stdin, stdin_read, book, todo, rest, line, step, result,
                   running, spawned, outputs>>

Next ==
    \/ Main
    \/ ParseInput
    \/ Visit
    \/ NextLine
    \/ EndContent
    \/ Spawn
    \/ SpawnFail
    \/ ChildExit
    \/ Serialize
    \/ SerializeFail

Spec == Init /\ [][Next]_vars

\* the Content Rewriter on one chapter of up to MaxLines lines
InitRewrite == Start({<<>>}, {Document(b) : b \in RewriteBooks})

SpecRewrite == InitRewrite /\ [][Next]_vars

\* the Marker Scanner alone, on one line
InitScan ==
    /\ pc = "scan"
    /\ line \in ScanLines
    /\ step = None
    /\ args = <<>>
    /\ stdin = Malformed
    /\ stdin_read = FALSE
    /\ book = <<>>
    /\ todo = <<>>
    /\ rest = <<>>
    /\ result = <<>>
    /\ running = 0
    /\ spawned = <<>>
    /\ outputs = <<>>
    /\ stdout = Nothing
    /\ stderr = <<>>
    /\ exit_code = NoExit

Scan ==
    /\ pc = "scan"
    /\ step' = extract_step_name(line)
    /\ pc' = "scanned"
    /\ UNCHANGED <<args, stdin, stdin_read, book, todo, rest, line, result,
                   running, spawned, outputs, stdout, stderr, exit_code>>

SpecScan == InitScan /\ [][Scan]_vars

(***************************************************************************)
(* What the claims speak of.                                               *)
(***************************************************************************)
IsPrefix(a, b) == Len(a) <= Len(b) /\ SubSeq(b, 1, Len(a)) = a

IsMarker(ln) == extract_step_name(ln).some

\* the step directories of the marker lines of a content, top to bottom
RECURSIVE MarkerDirs(_)
MarkerDirs(ls) ==
    IF ls = <<>> THEN <<>>
    ELSE (IF IsMarker(Head(ls))
          THEN <<<<"rust_stages/">> \o extract_step_name(Head(ls)).val>>
          ELSE <<>>)
         \o MarkerDirs(Tail(ls))

OwnMarkers(item) ==
    IF item.kind = "Chapter" /\ item.path # NoPath
    THEN MarkerDirs(lines(item.content))
    ELSE <<>>

\* the markers of the chapters that are no drafts, a chapter before its
\* sub-chapters
RECURSIVE DocumentOrder(_)
DocumentOrder(items) ==
    Concat([i \in 1..Len(items) |->
        OwnMarkers(items[i]) \o DocumentOrder(items[i].sub_items)])

\* the same markers, a chapter after its sub-chapters
RECURSIVE SubItemsFirst(_)
SubItemsFirst(items) ==
    Concat([i \in 1..Len(items) |->
        SubItemsFirst(items[i].sub_items) \o OwnMarkers(items[i])])

\* whether any chapter, draft or not, has a marker line
RECURSIVE HasMarker(_)
HasMarker(items) ==
    \E i \in 1..Len(items) :
        \/ \E k \in 1..Len(lines(items[i].content)) :
               IsMarker(lines(items[i].content)[k])
        \/ HasMarker(items[i].sub_items)

\* every "\r\n" becomes "\n"
RECURSIVE CrLfToLf(_)
CrLfToLf(s) ==
    IF s = <<>> THEN <<>>
    ELSE IF Len(s) >= 2 /\ s[1] = CR /\ s[2] = LF
    THEN <<LF>> \o CrLfToLf(SubSeq(s, 3, Len(s)))
    ELSE <<s[1]>> \o CrLfToLf(Tail(s))

\* one "\n" after every line, the last one included
NormalizedEndings(s) ==
    LET t == CrLfToLf(s) IN
    IF t = <<>> \/ t[Len(t)] = LF THEN t ELSE t \o <<LF>>

\* the tree with the line endings of every chapter that is no draft normalized
RECURSIVE NormalizedTree(_)
NormalizedTree(items) ==
    [i \in 1..Len(items) |->
        IF items[i].kind = "Chapter"
        THEN [items[i] EXCEPT
                !.content = IF items[i].path = NoPath THEN @ ELSE NormalizedEndings(@),
                !.sub_items = NormalizedTree(@)]
        ELSE items[i]]

\* the lines in order, each followed by one newline, a marker line replaced
\* by the block of its run
RECURSIVE Rewritten(_, _)
Rewritten(ls, outs) ==
    IF ls = <<>> THEN <<>>
    ELSE IF IsMarker(Head(ls))
    THEN compile_format(Head(outs)) \o <<LF>> \o Rewritten(Tail(ls), Tail(outs))
    ELSE Head(ls) \o <<LF>> \o Rewritten(Tail(ls), outs)

\* whether any character of a occurs in s
Shares(s, a) == \E i \in 1..Len(s), j \in 1..Len(a) : s[i] = a[j]

Processing == args = <<>> /\ stdin_read /\ stdin.valid

Emitted == pc = "done" /\ exit_code = EXIT_SUCCESS /\ stdout.written = "whole"

(***************************************************************************)
(* Claims.                                                                 *)
(***************************************************************************)

\* C1: with a first argument the process reads no standard input, spawns
\* nothing and writes nothing to standard output; the argument `supports`
\* (with or without a second argument) ends it with status 0, any other
\* first argument ends it with status 1 and an "unknown argument"
\* diagnostic that holds the argument; only a run without arguments
\* enters Processing.
C1_ArgumentDispatch ==
    /\ stdin_read => args = <<>>
    /\ (pc = "done" /\ args # <<>>) =>
        /\ ~stdin_read
        /\ spawned = <<>>
        /\ stdout = Nothing
        /\ IF args[1] = Arg("supports")
           THEN exit_code = EXIT_SUCCESS /\ stderr = <<>>
           ELSE exit_code = EXIT_FAILURE /\ stderr = <<UnknownArgument(args[1].s)>>

\* C2: a run that has ended (its first argument, if any, being text) has
\* status 0 or 1: 0 when the document was emitted or in `supports` mode, 1
\* with a report on standard error for an argument error or any failure
\* during Processing.
C2_ExitStatusZeroOrOne ==
    (pc = "done" /\ (args = <<>> \/ args[1].unicode)) =>
        /\ exit_code \in {EXIT_SUCCESS, EXIT_FAILURE}
        /\ exit_code = EXIT_SUCCESS <=>
               (stdout.written = "whole" \/ (args # <<>> /\ args[1].s = "supports"))
        /\ exit_code = EXIT_FAILURE => stderr # <<>>

\* C3: the scanner returns a step name exactly for the lines that, leading
\* whitespace removed, begin with `{{#compile_output:` and end with `}}`,
\* and the name is the text between the two, trimmed; for every other line
\* it returns nothing.
C3_ScannerContract ==
    pc = "scanned" =>
        LET t == trim_start(line) IN
        IF starts_with(t, prefix) /\ ends_with(t, suffix)
        THEN step = Some(trim(SubSeq(t, Len(prefix) + 1, Len(t) - Len(suffix))))
        ELSE step = None

\* an indented marker with whitespace around a name that holds a space
C3_Witness ==
    /\ pc = "scanned"
    /\ line # <<>>
    /\ line[1] \in White_Space
    /\ step = Some(<<"a", " ", "b">>)
    /\ Len(trim_start(line)) > Len(prefix) + Len(suffix) + 3

\* C4: the rewriter's output is the input's lines in order, each followed
\* by exactly one newline (the last one too), a line the scanner does not
\* match copied as it is (an unclosed marker included) and no step run for
\* it: the steps run are as many as the marker lines.
C4_PassThrough ==
    LET content == stdin.book[1].content
        seen == SubSeq(lines(content), 1, Len(lines(content)) - Len(rest))
    IN /\ (Processing /\ pc = "lines") =>
            /\ result = Rewritten(seen, outputs)
            /\ Len(spawned) = Len(MarkerDirs(seen))
       /\ Emitted =>
            /\ stdout.doc[1].content = Rewritten(lines(content), outputs)
            /\ Len(spawned) = Len(MarkerDirs(lines(content)))

\* an unclosed marker after a marker, the last line without a newline
C4_Witness ==
    /\ Emitted
    /\ outputs # <<>>
    /\ LET content == stdin.book[1].content IN
        /\ content # <<>>
        /\ content[Len(content)] # LF
        /\ \E k \in 1..Len(lines(content)) :
            /\ starts_with(lines(content)[k], prefix)
            /\ ~IsMarker(lines(content)[k])

\* C5: when the command of a marker has exited, the marker's line has
\* become the block ```text, the text, ```: the text is what the command
\* wrote to standard output when it exited with status 0 and what it wrote
\* to standard error otherwise, and nothing of the other stream.
C5_OutputSelection ==
    (pc = "lines" /\ step.some /\ outputs # <<>>) =>
        LET o == outputs[Len(outputs)]
            T == from_utf8_lossy(IF o.success THEN o.stdout ELSE o.stderr)
            other == IF o.success THEN o.stderr ELSE o.stdout
            block == <<BQ, BQ, BQ, "t", "e", "x", "t", LF>> \o T \o <<LF, BQ, BQ, BQ>>
        IN /\ ends_with(result, block \o <<LF>>)
           /\ ~Shares(block, other)

\* a command that failed having written to its standard output as well
C5_Witness ==
    /\ pc = "lines"
    /\ step.some
    /\ outputs # <<>>
    /\ ~outputs[Len(outputs)].success
    /\ outputs[Len(outputs)].stdout # <<>>

\* C6: a draft chapter's content is the same before, during and after the
\* pass, whatever it holds, the chapter being rewritten is never a draft,
\* and the commands spawned are never more than the markers of the
\* chapters that are no drafts.
C6_DraftFrame ==
    Processing =>
        LET ps == for_each_mut(stdin.book, <<>>) IN
        /\ \A k \in 1..Len(ps) :
            LET was == ItemAt(stdin.book, ps[k]) IN
            (was.kind = "Chapter" /\ was.path = NoPath) =>
                /\ ItemAt(book, ps[k]) = [was EXCEPT !.sub_items = ItemAt(book, ps[k]).sub_items]
                /\ stdout.written = "whole" => ItemAt(stdout.doc, ps[k]).content = was.content
        /\ pc \in {"lines", "compile", "wait"} => ItemAt(stdin.book, Head(todo)).path # NoPath
        /\ IsPrefix(spawned, SubItemsFirst(stdin.book))

\* a draft chapter of marker lines, among chapters whose markers were run
C6_Witness ==
    /\ Emitted
    /\ spawned # <<>>
    /\ \E k \in 1..Len(book) :
        /\ book[k].kind = "Chapter"
        /\ book[k].path = NoPath
        /\ book[k].content = TwoMarkers

\* C7: a tree without any marker line spawns nothing and is emitted as it
\* came in (items, order, nesting and every other field), but for the
\* line endings of the chapters that are no drafts, each line ending in
\* one newline.
C7_MarkerFreeRoundTrip ==
    (Processing /\ ~HasMarker(stdin.book)) =>
        /\ spawned = <<>>
        /\ running = 0
        /\ Emitted => stdout.doc = NormalizedTree(stdin.book)

\* a nested chapter, a draft and a separator; the line endings did change
C7_Witness ==
    /\ Emitted
    /\ ~HasMarker(stdin.book)
    /\ stdout.doc # stdin.book
    /\ \E k \in 1..Len(stdin.book) : stdin.book[k].sub_items # <<>>

\* C8 as stated: the commands are spawned in document order, a chapter's
\* markers before those of its sub-chapters, one at a time.
C8_DocumentOrder ==
    /\ IsPrefix(spawned, DocumentOrder(stdin.book))
    /\ running <= 1
    /\ Emitted /\ args = <<>> => spawned = DocumentOrder(stdin.book)

\* C8: the commands are spawned one per marker occurrence of the chapters
\* that are no drafts, in the order of for_each_mut (a chapter's
\* sub-chapters before the chapter itself, siblings in tree order, lines
\* top to bottom), each one having exited before the next is spawned.
C8_WalkOrder ==
    /\ IsPrefix(spawned, SubItemsFirst(stdin.book))
    /\ running \in {0, 1}
    /\ running = 1 <=> pc = "wait"
    /\ Len(outputs) + running = Len(spawned)
    /\ Emitted /\ args = <<>> => spawned = SubItemsFirst(stdin.book)

\* markers in a chapter and in its sub-chapter, and a step run twice
C8_Witness ==
    /\ Emitted
    /\ DocumentOrder(stdin.book) # SubItemsFirst(stdin.book)
    /\ \E i, j \in 1..Len(spawned) : i < j /\ spawned[i] = spawned[j]

=============================================================================
